---- MODULE Spec2Model ----
(***************************************************************************)
(* eywa-errors: the AppError taxonomy, its conversion into RFC 7807        *)
(* ProblemDetails, the ValidationErrors aggregate with its builder, and    *)
(* the task-local request id (CURRENT_REQUEST_ID).                         *)
(*                                                                         *)
(* Three specifications share the pure operators below:                    *)
(*   Spec         worker threads polling request tasks that call           *)
(*                set_request_id / get_request_id                          *)
(*   SpecConvert  one call chain raising failures and converting them      *)
(*                (to_problem_details, into_response) under scopes         *)
(*   SpecBuilder  ValidationErrors, ValidationErrorBuilder and the         *)
(*                validation_error_* helpers                               *)
(***************************************************************************)
EXTENDS Integers, Sequences, FiniteSets, TLC

VARIABLES
    \* ---- Spec: worker threads, request tasks and the task-local key
    slot,      \* thread -> Option<Uuid>: the thread-local cell behind CURRENT_REQUEST_ID
    on,        \* task -> the worker polling it ("none" while suspended)
    frames,    \* task -> stack of live sync_scope guards [id, prev]
    started,   \* task -> Option<Uuid>: scope id under which body started deferred work
    lastExit,  \* task -> how the task left a scope, until its next call observes it
    nextV4,    \* number of Uuid::new_v4() values drawn so far
    lastGet,   \* Option: record of the last get_request_id() call
    \* ---- SpecConvert: one call chain converting a failure
    cInput,    \* the AppError value the business logic raises
    cErr,      \* Option<AppError>: the failure currently propagating
    cSlot,     \* Option<Uuid>: the task-local cell of the converting call chain
    cFrames,   \* stack of live sync_scope guards [id, prev]
    cV4,       \* number of Uuid::new_v4() values drawn so far
    cClock,    \* chrono::Utc::now()
    cPds,      \* log of to_problem_details calls
    cDiag,     \* tracing::error! records emitted
    cResp,     \* responses handed to the transport
    \* ---- SpecBuilder
    obj,       \* the value being accumulated: [kind, errors]
    calls,     \* arguments of the add/field calls made on obj, in call order
    out        \* Option: what the last operation returned

scopeVars == <<slot, on, frames, started, lastExit, nextV4, lastGet>>
convVars == <<cInput, cErr, cSlot, cFrames, cV4, cClock, cPds, cDiag, cResp>>
builderVars == <<obj, calls, out>>
vars == <<scopeVars, convVars, builderVars>>

-----------------------------------------------------------------------------
(* Bounds *)

MaxDepth == 2
MaxFresh == 2
MaxErrors == 2
MaxConv == 2
MaxClock == 1

-----------------------------------------------------------------------------
(* Option<T> is a sequence of length at most one *)

None == <<>>
Some(x) == <<x>>

(* Uuid: naturals; 0 is the nil uuid.  Uuid::new_v4() is modelled as a     *)
(* generator of values never handed out before: new_v4(n) is the n-th      *)
(* draw, and differs from every identifier a request binds.                *)
NilUuid == 0
Tasks == {"A", "B"}
Threads == {"w1", "w2"}
\* the identifier request t binds at nesting depth d: all distinct
IdAt(t, d) == IF t = "A" THEN 2 * d - 1 ELSE 2 * d
IdsOf(t) == {IdAt(t, d) : d \in 1..MaxDepth}
RequestIds == UNION {IdsOf(t) : t \in Tasks}
new_v4(n) == 2 * MaxDepth + n + 1

uuid_to_string(u) == "uuid-" \o ToString(u)
to_rfc3339(now) == "T" \o ToString(now) \o "+00:00"

-----------------------------------------------------------------------------
(* get_request_id: CURRENT_REQUEST_ID.try_with(|id| *id), falling back to  *)
(* Uuid::new_v4().  s is the content of the task-local cell, n the         *)
(* generator state; the result carries the id returned, the generator      *)
(* state and the content of the cell after the call.                       *)

get_request_id_always_new(s, n) ==
    [id |-> new_v4(n), gen |-> n + 1, cell |-> s]

get_request_id_init(s, n) ==
    IF s # None
    THEN [id |-> s[1], gen |-> n, cell |-> s]
    ELSE [id |-> new_v4(n), gen |-> n + 1, cell |-> Some(new_v4(n))]

get_request_id(s, n) ==
    IF s # None
    THEN [id |-> s[1], gen |-> n, cell |-> s]
    ELSE [id |-> new_v4(n), gen |-> n + 1, cell |-> s]

-----------------------------------------------------------------------------
(* set_request_id = CURRENT_REQUEST_ID.sync_scope(request_id, f): the      *)
(* value is swapped into the cell for the synchronous call f(), and the    *)
(* guard swaps the previous content back when f returns or unwinds.        *)

scope_enter(cell, stack, id) ==
    [cell |-> Some(id), stack |-> Append(stack, [id |-> id, prev |-> cell])]

scope_exit_clear(cell, stack) ==
    [cell |-> None, stack |-> SubSeq(stack, 1, Len(stack) - 1)]

scope_exit(cell, stack) ==
    [cell |-> stack[Len(stack)].prev, stack |-> SubSeq(stack, 1, Len(stack) - 1)]

\* unwinding drops the guards innermost first, down to depth k
RECURSIVE scope_unwind(_, _, _)
scope_unwind(cell, stack, k) ==
    IF Len(stack) <= k THEN [cell |-> cell, stack |-> stack]
    ELSE LET x == scope_exit(cell, stack) IN scope_unwind(x.cell, x.stack, k)

\* the identifier bound by the innermost live scope of a call chain
Ambient(stack) == IF Len(stack) = 0 THEN None ELSE Some(stack[Len(stack)].id)

-----------------------------------------------------------------------------
(* FieldError *)

FieldError_new(field, code, message) ==
    [field |-> field, code |-> code, message |-> message, received |-> None]

FieldError_with_received(field, code, message, received) ==
    [field |-> field, code |-> code, message |-> message, received |-> Some(received)]

(* ValidationErrors *)

ValidationErrors_new == [errors |-> <<>>]

add_front(v, field, code, message) ==
    [errors |-> <<FieldError_new(field, code, message)>> \o v.errors]

add(v, field, code, message) ==
    [errors |-> Append(v.errors, FieldError_new(field, code, message))]

add_with_value(v, field, code, message, received) ==
    [errors |-> Append(v.errors, FieldError_with_received(field, code, message, received))]

is_empty(v) == Len(v.errors) = 0

Ok == [ok |-> TRUE]
Err(e) == [ok |-> FALSE, err |-> e]

Validation(v) == [tag |-> "Validation", v0 |-> v]

into_result(v) == IF is_empty(v) THEN Ok ELSE Err(Validation(v))

From_ValidationErrors(errors) == Validation(errors)

RECURSIVE join(_, _)
join(messages, sep) ==
    IF Len(messages) = 0 THEN ""
    ELSE IF Len(messages) = 1 THEN messages[1]
    ELSE messages[1] \o sep \o join(Tail(messages), sep)

ValidationErrors_fmt(v) ==
    join([i \in 1..Len(v.errors) |-> v.errors[i].field \o ": " \o v.errors[i].message], ", ")

-----------------------------------------------------------------------------
(* http_errors.rs constructors *)

not_found(resource, id) == [tag |-> "NotFound", resource |-> resource, id |-> id]
validation_error(field, message) ==
    [tag |-> "ValidationField", field |-> field, message |-> message]
validation_error_with_code(field, code, message) ==
    Validation(add(ValidationErrors_new, field, code, message))
validation_error_with_value(field, code, message, received) ==
    Validation(add_with_value(ValidationErrors_new, field, code, message, received))
unauthorized == [tag |-> "Unauthorized"]
forbidden(action) == [tag |-> "Forbidden", action |-> action]
conflict(message) == [tag |-> "Conflict", message |-> message]
database_error(cause) == [tag |-> "DatabaseError", v0 |-> cause]
config_error(message) == [tag |-> "ConfigError", v0 |-> message]
external_service_error(service) == [tag |-> "ExternalServiceError", service |-> service]
internal_error(message) == [tag |-> "InternalServerError", v0 |-> message]
bad_request(message) == [tag |-> "BadRequest", v0 |-> message]
service_unavailable(message) == [tag |-> "ServiceUnavailable", v0 |-> message]

-----------------------------------------------------------------------------
(* AppError: Display (thiserror #[error(...)] attributes) *)

AppError_fmt(e) ==
    CASE e.tag = "NotFound" -> "Resource not found: " \o e.resource \o " with id: " \o e.id
      [] e.tag = "Validation" -> "Validation error: " \o ValidationErrors_fmt(e.v0)
      [] e.tag = "ValidationField" -> "Validation error: " \o e.field \o " - " \o e.message
      [] e.tag = "Unauthorized" -> "Unauthorized"
      [] e.tag = "Forbidden" -> "Forbidden: " \o e.action
      [] e.tag = "Conflict" -> "Conflict: " \o e.message
      [] e.tag = "DatabaseError" -> "Database error: " \o e.v0
      [] e.tag = "ConfigError" -> "Configuration error: " \o e.v0
      [] e.tag = "ExternalServiceError" -> "External service error: " \o e.service
      [] e.tag = "InternalServerError" -> "Internal error: " \o e.v0
      [] e.tag = "BadRequest" -> "Bad Request: " \o e.v0
      [] e.tag = "ServiceUnavailable" -> "Service unavailable: " \o e.v0

error_type_uri(e) ==
    CASE e.tag = "NotFound" -> "https://errors.eywa.dev/not-found"
      [] e.tag \in {"Validation", "ValidationField"} ->
            "https://errors.eywa.dev/validation-error"
      [] e.tag = "Unauthorized" -> "https://errors.eywa.dev/unauthorized"
      [] e.tag = "Forbidden" -> "https://errors.eywa.dev/forbidden"
      [] e.tag = "Conflict" -> "https://errors.eywa.dev/conflict"
      [] e.tag = "DatabaseError" -> "https://errors.eywa.dev/database-error"
      [] e.tag = "ConfigError" -> "https://errors.eywa.dev/config-error"
      [] e.tag = "ExternalServiceError" ->
            "https://errors.eywa.dev/external-service-error"
      [] e.tag = "InternalServerError" -> "https://errors.eywa.dev/internal-error"
      [] e.tag = "BadRequest" -> "https://errors.eywa.dev/bad-request"
      [] e.tag = "ServiceUnavailable" -> "https://errors.eywa.dev/service-unavailable"

(* A copy-pasted match arm: ExternalServiceError answering 500.            *)
status_and_title_slip(e) ==
    CASE e.tag = "NotFound" -> <<404, "Not Found">>
      [] e.tag \in {"Validation", "ValidationField"} -> <<400, "Validation Error">>
      [] e.tag = "BadRequest" -> <<400, "Bad Request">>
      [] e.tag = "Unauthorized" -> <<401, "Unauthorized">>
      [] e.tag = "Forbidden" -> <<403, "Forbidden">>
      [] e.tag = "Conflict" -> <<409, "Conflict">>
      [] e.tag = "DatabaseError" -> <<500, "Database Error">>
      [] e.tag = "ConfigError" -> <<500, "Configuration Error">>
      [] e.tag = "ExternalServiceError" -> <<500, "External Service Error">>
      [] e.tag = "InternalServerError" -> <<500, "Internal Server Error">>
      [] e.tag = "ServiceUnavailable" -> <<503, "Service Unavailable">>

status_and_title(e) ==
    CASE e.tag = "NotFound" -> <<404, "Not Found">>
      [] e.tag \in {"Validation", "ValidationField"} -> <<400, "Validation Error">>
      [] e.tag = "BadRequest" -> <<400, "Bad Request">>
      [] e.tag = "Unauthorized" -> <<401, "Unauthorized">>
      [] e.tag = "Forbidden" -> <<403, "Forbidden">>
      [] e.tag = "Conflict" -> <<409, "Conflict">>
      [] e.tag = "DatabaseError" -> <<500, "Database Error">>
      [] e.tag = "ConfigError" -> <<500, "Configuration Error">>
      [] e.tag = "ExternalServiceError" -> <<502, "External Service Error">>
      [] e.tag = "InternalServerError" -> <<500, "Internal Server Error">>
      [] e.tag = "ServiceUnavailable" -> <<503, "Service Unavailable">>

(* The errors field of the document (the match on self in                  *)
(* to_problem_details).                                                    *)
problem_errors_first_only(e) ==
    CASE e.tag = "Validation" ->
            IF Len(e.v0.errors) = 0 THEN <<>> ELSE <<e.v0.errors[1]>>
      [] e.tag = "ValidationField" ->
            <<FieldError_new(e.field, "validation_error", e.message)>>
      [] OTHER -> <<>>

problem_errors(e) ==
    CASE e.tag = "Validation" -> e.v0.errors
      [] e.tag = "ValidationField" ->
            <<FieldError_new(e.field, "validation_error", e.message)>>
      [] OTHER -> <<>>

(* to_problem_details(&self): s is the task-local cell, n the uuid         *)
(* generator state, now the clock.  Returns the document, the generator   *)
(* state and the cell after the call.                                      *)
to_problem_details(e, s, n, now) ==
    LET st == status_and_title(e)
        rid == get_request_id(s, n)
    IN  [pd |-> [error_type |-> error_type_uri(e),
                 title |-> st[2],
                 status |-> st[1],
                 detail |-> AppError_fmt(e),
                 instance |-> None,
                 request_id |-> uuid_to_string(rid.id),
                 timestamp |-> to_rfc3339(now),
                 errors |-> problem_errors(e)],
         gen |-> rid.gen,
         cell |-> rid.cell]

-----------------------------------------------------------------------------
(* Inputs *)

Fields == {"email", "name"}
Codes == {"invalid_format", "too_short"}
Messages == {"bad", "short"}
Values == {"x"}

-----------------------------------------------------------------------------
(* SpecBuilder: ValidationErrors, ValidationErrorBuilder, helpers          *)

ValidationErrorBuilder_new == [kind |-> "builder", errors |-> ValidationErrors_new]

\* no live builder or aggregate: none constructed yet, or moved out by a
\* consuming call (build, into_result, from)
NoObject == [kind |-> "none", errors |-> ValidationErrors_new]

InitBuilder ==
    /\ obj = NoObject
    /\ calls = <<>>
    /\ out = None

NewBuilder ==
    /\ obj' = ValidationErrorBuilder_new
    /\ calls' = <<>>
    /\ out' = None
    /\ UNCHANGED <<scopeVars, convVars>>

NewErrors ==
    /\ obj' = [kind |-> "aggregate", errors |-> ValidationErrors_new]
    /\ calls' = <<>>
    /\ out' = None
    /\ UNCHANGED <<scopeVars, convVars>>

Call(fn, f, c, m, r) == [fn |-> fn, field |-> f, code |-> c, message |-> m, received |-> r]

\* ValidationErrorBuilder::field
Field(f, c, m) ==
    /\ obj.kind = "builder"
    /\ Len(obj.errors.errors) < MaxErrors
    /\ obj' = [obj EXCEPT !.errors = add(obj.errors, f, c, m)]
    /\ calls' = Append(calls, Call("field", f, c, m, None))
    /\ out' = None
    /\ UNCHANGED <<scopeVars, convVars>>

\* ValidationErrorBuilder::field_with_value
FieldWithValue(f, c, m, r) ==
    /\ obj.kind = "builder"
    /\ Len(obj.errors.errors) < MaxErrors
    /\ obj' = [obj EXCEPT !.errors = add_with_value(obj.errors, f, c, m, r)]
    /\ calls' = Append(calls, Call("field_with_value", f, c, m, Some(r)))
    /\ out' = None
    /\ UNCHANGED <<scopeVars, convVars>>

\* ValidationErrorBuilder::has_errors(&self)
HasErrors ==
    /\ obj.kind = "builder"
    /\ out' = Some([op |-> "has_errors", val |-> ~is_empty(obj.errors)])
    /\ UNCHANGED <<obj, calls>>
    /\ UNCHANGED <<scopeVars, convVars>>

\* ValidationErrorBuilder::build(self)
Build ==
    /\ obj.kind = "builder"
    /\ out' = Some([op |-> "build", val |-> into_result(obj.errors)])
    /\ obj' = NoObject
    /\ UNCHANGED calls
    /\ UNCHANGED <<scopeVars, convVars>>

\* ValidationErrors::add on a stand-alone aggregate
Add(f, c, m) ==
    /\ obj.kind = "aggregate"
    /\ Len(obj.errors.errors) < MaxErrors
    /\ obj' = [obj EXCEPT !.errors = add(obj.errors, f, c, m)]
    /\ calls' = Append(calls, Call("add", f, c, m, None))
    /\ out' = None
    /\ UNCHANGED <<scopeVars, convVars>>

\* ValidationErrors::add_with_value on a stand-alone aggregate
AddWithValue(f, c, m, r) ==
    /\ obj.kind = "aggregate"
    /\ Len(obj.errors.errors) < MaxErrors
    /\ obj' = [obj EXCEPT !.errors = add_with_value(obj.errors, f, c, m, r)]
    /\ calls' = Append(calls, Call("add_with_value", f, c, m, Some(r)))
    /\ out' = None
    /\ UNCHANGED <<scopeVars, convVars>>

\* ValidationErrors::into_result(self)
IntoResult ==
    /\ obj.kind = "aggregate"
    /\ out' = Some([op |-> "into_result", val |-> into_result(obj.errors)])
    /\ obj' = NoObject
    /\ UNCHANGED calls
    /\ UNCHANGED <<scopeVars, convVars>>

\* AppError::from(ValidationErrors)
FromErrors ==
    /\ obj.kind = "aggregate"
    /\ out' = Some([op |-> "from", val |-> Err(From_ValidationErrors(obj.errors))])
    /\ obj' = NoObject
    /\ UNCHANGED calls
    /\ UNCHANGED <<scopeVars, convVars>>

\* validation_error_with_code / validation_error_with_value / validation_error
HelperWithCode(f, c, m) ==
    /\ out' = Some([op |-> "validation_error_with_code",
                    val |-> Err(validation_error_with_code(f, c, m))])
    /\ calls' = <<Call("validation_error_with_code", f, c, m, None)>>
    /\ obj' = NoObject
    /\ UNCHANGED <<scopeVars, convVars>>

HelperWithValue(f, c, m, r) ==
    /\ out' = Some([op |-> "validation_error_with_value",
                    val |-> Err(validation_error_with_value(f, c, m, r))])
    /\ calls' = <<Call("validation_error_with_value", f, c, m, Some(r))>>
    /\ obj' = NoObject
    /\ UNCHANGED <<scopeVars, convVars>>

HelperField(f, m) ==
    /\ out' = Some([op |-> "validation_error", val |-> Err(validation_error(f, m))])
    /\ calls' = <<Call("validation_error", f, "validation_error", m, None)>>
    /\ obj' = NoObject
    /\ UNCHANGED <<scopeVars, convVars>>

NextBuilder ==
    \/ NewBuilder
    \/ NewErrors
    \/ \E f \in Fields, c \in Codes, m \in Messages : Field(f, c, m)
    \/ \E f \in Fields, c \in Codes, m \in Messages, r \in Values : FieldWithValue(f, c, m, r)
    \/ HasErrors
    \/ Build
    \/ \E f \in Fields, c \in Codes, m \in Messages : Add(f, c, m)
    \/ \E f \in Fields, c \in Codes, m \in Messages, r \in Values : AddWithValue(f, c, m, r)
    \/ IntoResult
    \/ FromErrors
    \/ \E f \in Fields, c \in Codes, m \in Messages : HelperWithCode(f, c, m)
    \/ \E f \in Fields, c \in Codes, m \in Messages, r \in Values : HelperWithValue(f, c, m, r)
    \/ \E f \in Fields, m \in Messages : HelperField(f, m)

-----------------------------------------------------------------------------
(* Spec: two request tasks polled by two worker threads                    *)

\* tokio::task_local! keeps the value in a thread_local cell of the worker
\* polling the task: which cell a worker reads and writes.
GlobalKey(th) == "w1"

LocalKey(th) == th

Results == {"r1", "r2"}
NoExit == [how |-> "none", from |-> 0, body |-> "", ret |-> ""]

InitScope ==
    /\ slot = [k \in Threads |-> None]
    /\ on = [t \in Tasks |-> "none"]
    /\ frames = [t \in Tasks |-> <<>>]
    /\ started = [t \in Tasks |-> None]
    /\ lastExit = [t \in Tasks |-> NoExit]
    /\ nextV4 = 0
    /\ lastGet = None

Running(t) == on[t] # "none"

\* a worker picks up a suspended task and polls it
Schedule(t, th) ==
    /\ ~Running(t)
    /\ \A u \in Tasks : on[u] # th
    /\ on' = [on EXCEPT ![t] = th]
    /\ UNCHANGED <<slot, frames, started, lastExit, nextV4, lastGet>>
    /\ UNCHANGED <<convVars, builderVars>>

\* the task reaches a suspension point (.await returning Pending); the
\* closure given to set_request_id is FnOnce() -> R, so no scope is live
Yield(t) ==
    /\ Running(t)
    /\ frames[t] = <<>>
    /\ on' = [on EXCEPT ![t] = "none"]
    /\ UNCHANGED <<slot, frames, started, lastExit, nextV4, lastGet>>
    /\ UNCHANGED <<convVars, builderVars>>

\* set_request_id(id, f): entry, f starts running
SetRequestId(t, id) ==
    /\ Running(t)
    /\ Len(frames[t]) < MaxDepth
    /\ id = IdAt(t, Len(frames[t]) + 1)
    /\ LET k == LocalKey(on[t])
           x == scope_enter(slot[k], frames[t], id)
       IN  /\ slot' = [slot EXCEPT ![k] = x.cell]
           /\ frames' = [frames EXCEPT ![t] = x.stack]
    /\ lastExit' = [lastExit EXCEPT ![t] = NoExit]
    /\ UNCHANGED <<on, started, nextV4, lastGet>>
    /\ UNCHANGED <<convVars, builderVars>>

\* f returns r; set_request_id returns what sync_scope returns
Return(t, r) ==
    /\ Running(t)
    /\ frames[t] # <<>>
    /\ LET k == LocalKey(on[t])
           x == scope_exit(slot[k], frames[t])
       IN  /\ slot' = [slot EXCEPT ![k] = x.cell]
           /\ frames' = [frames EXCEPT ![t] = x.stack]
    /\ lastExit' = [lastExit EXCEPT ![t] =
                        [how |-> "return", from |-> Len(frames[t]), body |-> r, ret |-> r]]
    /\ UNCHANGED <<on, started, nextV4, lastGet>>
    /\ UNCHANGED <<convVars, builderVars>>

\* f panics; the unwinding is caught with k scopes still live
Unwind(t, k) ==
    /\ Running(t)
    /\ k < Len(frames[t])
    /\ LET c == LocalKey(on[t])
           x == scope_unwind(slot[c], frames[t], k)
       IN  /\ slot' = [slot EXCEPT ![c] = x.cell]
           /\ frames' = [frames EXCEPT ![t] = x.stack]
    /\ lastExit' = [lastExit EXCEPT ![t] =
                        [how |-> "unwind", from |-> Len(frames[t]), body |-> "", ret |-> ""]]
    /\ UNCHANGED <<on, started, nextV4, lastGet>>
    /\ UNCHANGED <<convVars, builderVars>>

Observation(t, by, r) ==
    [task |-> t, by |-> by,
     scope |-> Ambient(frames[t]), depth |-> Len(frames[t]),
     startedIn |-> IF by = "started" THEN started[t] ELSE None,
     exit |-> [how |-> lastExit[t].how, from |-> lastExit[t].from],
     id |-> r.id, generated |-> r.gen - nextV4,
     repeat |-> r.id \in {new_v4(i) : i \in 0..(nextV4 - 1)},
     after |-> r.cell]

\* the task's own code calls get_request_id()
GetRequestId(t) ==
    /\ Running(t)
    /\ nextV4 < MaxFresh
    /\ LET k == LocalKey(on[t])
           r == get_request_id(slot[k], nextV4)
       IN  /\ slot' = [slot EXCEPT ![k] = r.cell]
           /\ nextV4' = r.gen
           /\ lastGet' = Some(Observation(t, "body", r))
    /\ lastExit' = [lastExit EXCEPT ![t] = NoExit]
    /\ UNCHANGED <<on, frames, started>>
    /\ UNCHANGED <<convVars, builderVars>>

\* inside the request's set_request_id(id, f), f starts asynchronous work
\* (builds the future it returns, or the future its caller awaits)
StartWork(t) ==
    /\ Running(t)
    /\ Len(frames[t]) = 1
    /\ started[t] = None
    /\ started' = [started EXCEPT ![t] = Ambient(frames[t])]
    /\ UNCHANGED <<slot, on, frames, lastExit, nextV4, lastGet>>
    /\ UNCHANGED <<convVars, builderVars>>

\* the work f started is polled once f has returned, possibly after the
\* task was suspended and resumed, and calls get_request_id()
PollStarted(t) ==
    /\ Running(t)
    /\ frames[t] = <<>>
    /\ started[t] # None
    /\ nextV4 < MaxFresh
    /\ LET k == LocalKey(on[t])
           r == get_request_id(slot[k], nextV4)
       IN  /\ slot' = [slot EXCEPT ![k] = r.cell]
           /\ nextV4' = r.gen
           /\ lastGet' = Some(Observation(t, "started", r))
    /\ started' = [started EXCEPT ![t] = None]
    /\ lastExit' = [lastExit EXCEPT ![t] = NoExit]
    /\ UNCHANGED <<on, frames>>
    /\ UNCHANGED <<convVars, builderVars>>

NextScope ==
    \/ \E t \in Tasks, th \in Threads : Schedule(t, th)
    \/ \E t \in Tasks : Yield(t)
    \/ \E t \in Tasks : \E id \in IdsOf(t) : SetRequestId(t, id)
    \/ \E t \in Tasks, r \in Results : Return(t, r)
    \/ \E t \in Tasks, k \in 0..MaxDepth : Unwind(t, k)
    \/ \E t \in Tasks : GetRequestId(t)
    \/ \E t \in Tasks : StartWork(t)
    \/ \E t \in Tasks : PollStarted(t)

-----------------------------------------------------------------------------
(* SpecConvert: a failure raised and converted at the boundary             *)

Texts == {"user", "42"}
SampleFieldErrors ==
    {FieldError_new("email", "invalid_format", "bad"),
     FieldError_with_received("name", "too_short", "short", "x")}
Aggregates ==
    UNION {[1..n -> SampleFieldErrors] : n \in 0..MaxErrors}

AppErrors ==
    {not_found(r, i) : r \in Texts, i \in Texts}
    \cup {Validation([errors |-> a]) : a \in Aggregates}
    \cup {validation_error(f, m) : f \in Fields, m \in Messages}
    \cup {unauthorized}
    \cup {forbidden(x) : x \in Texts}
    \cup {conflict(x) : x \in Texts}
    \cup {database_error(x) : x \in Texts}
    \cup {config_error(x) : x \in Texts}
    \cup {external_service_error(x) : x \in Texts}
    \cup {internal_error(x) : x \in Texts}
    \cup {bad_request(x) : x \in Texts}
    \cup {service_unavailable(x) : x \in Texts}

ConvIds == {1, 2}

InitConvert ==
    /\ cInput \in AppErrors
    /\ cErr = Some(cInput)
    /\ cSlot = None
    /\ cFrames = <<>>
    /\ cV4 = 0
    /\ cClock = 0
    /\ cPds = <<>>
    /\ cDiag = <<>>
    /\ cResp = <<>>

\* the request-entry point wraps the call chain in set_request_id(id, ..)
CEnter(id) ==
    /\ cFrames = <<>>
    /\ LET x == scope_enter(cSlot, cFrames, id)
       IN  /\ cSlot' = x.cell
           /\ cFrames' = x.stack
    /\ UNCHANGED <<cInput, cErr, cV4, cClock, cPds, cDiag, cResp>>
    /\ UNCHANGED <<scopeVars, builderVars>>

CReturn ==
    /\ cFrames # <<>>
    /\ LET x == scope_exit(cSlot, cFrames)
       IN  /\ cSlot' = x.cell
           /\ cFrames' = x.stack
    /\ UNCHANGED <<cInput, cErr, cV4, cClock, cPds, cDiag, cResp>>
    /\ UNCHANGED <<scopeVars, builderVars>>

Tick ==
    /\ cClock < MaxClock
    /\ cClock' = cClock + 1
    /\ UNCHANGED <<cInput, cErr, cSlot, cFrames, cV4, cPds, cDiag, cResp>>
    /\ UNCHANGED <<scopeVars, builderVars>>

\* the business logic fails again with the same value
Raise ==
    /\ cErr = None
    /\ cErr' = Some(cInput)
    /\ UNCHANGED <<cInput, cSlot, cFrames, cV4, cClock, cPds, cDiag, cResp>>
    /\ UNCHANGED <<scopeVars, builderVars>>

Conversion(e, r, direct, left) ==
    [err |-> e, scope |-> Ambient(cFrames), pd |-> r.pd, direct |-> direct, left |-> left]

\* err.to_problem_details() called on a borrowed failure
ToProblemDetails ==
    /\ cErr # None
    /\ Len(cPds) < MaxConv
    /\ LET r == to_problem_details(cErr[1], cSlot, cV4, cClock)
       IN  /\ cV4' = r.gen
           /\ cSlot' = r.cell
           /\ cPds' = Append(cPds, Conversion(cErr[1], r, TRUE, cErr))
    /\ UNCHANGED <<cInput, cErr, cFrames, cClock, cDiag, cResp>>
    /\ UNCHANGED <<scopeVars, builderVars>>

\* tracing::error!(status, error_type, detail, request_id, "Error occurred")
tracing_error_skip(log, status, problem) == log

tracing_error(log, status, problem) ==
    Append(log, [status |-> status,
                 error_type |-> problem.error_type,
                 detail |-> problem.detail,
                 request_id |-> problem.request_id])

\* err.into_response(): the failure reaches the boundary and is consumed
IntoResponse ==
    /\ cErr # None
    /\ Len(cPds) < MaxConv
    /\ LET status == status_and_title(cErr[1])[1]
           r == to_problem_details(cErr[1], cSlot, cV4, cClock)
       IN  /\ cV4' = r.gen
           /\ cSlot' = r.cell
           /\ cPds' = Append(cPds, Conversion(cErr[1], r, FALSE, None))
           /\ cDiag' = tracing_error(cDiag, status, r.pd)
           /\ cResp' = Append(cResp, [status |-> status,
                                      content_type |-> "application/problem+json",
                                      body |-> r.pd])
    /\ cErr' = None
    /\ UNCHANGED <<cInput, cFrames, cClock>>
    /\ UNCHANGED <<scopeVars, builderVars>>

NextConvert ==
    \/ \E id \in ConvIds : CEnter(id)
    \/ CReturn
    \/ Tick
    \/ Raise
    \/ ToProblemDetails
    \/ IntoResponse

-----------------------------------------------------------------------------
(* Specifications *)

IdleConvert ==
    /\ cInput = unauthorized
    /\ cErr = None
    /\ cSlot = None
    /\ cFrames = <<>>
    /\ cV4 = 0
    /\ cClock = 0
    /\ cPds = <<>>
    /\ cDiag = <<>>
    /\ cResp = <<>>

Init == InitScope /\ IdleConvert /\ InitBuilder
Next == NextScope
Spec == Init /\ [][Next]_vars

InitC == InitScope /\ InitConvert /\ InitBuilder
SpecConvert == InitC /\ [][NextConvert]_vars

InitB == InitScope /\ IdleConvert /\ InitBuilder
SpecBuilder == InitB /\ [][NextBuilder]_vars

-----------------------------------------------------------------------------
(* Properties of the correlation context (Spec)                            *)

\* C2: every get_request_id() call made by work that the body of
\* set_request_id(id, body) started returns id, also when that work runs
\* after body has returned or after a suspension point.
C2_ScopeCoversStartedWork ==
    lastGet # None =>
        (lastGet[1].by = "started" => lastGet[1].id = lastGet[1].startedIn[1])

\* C3: with two requests binding distinct identifiers, a get_request_id()
\* call inside a request's scope returns that request's identifier and
\* never the other request's, whatever the interleaving and whichever
\* workers poll the two tasks.
C3_Isolation ==
    /\ \A t \in Tasks :
        (Running(t) /\ frames[t] # <<>>) =>
            /\ slot[on[t]] # None
            /\ slot[on[t]][1] \in IdsOf(t)
            /\ \A u \in Tasks \ {t} : slot[on[t]][1] \notin IdsOf(u)
    /\ lastGet # None =>
        LET g == lastGet[1]
        IN  g.scope # None =>
                /\ g.id = g.scope[1]
                /\ \A u \in Tasks \ {g.task} : g.id \notin IdsOf(u)

C3_Witness ==
    /\ lastGet # None
    /\ lastGet[1].task = "B"
    /\ lastGet[1].scope # None
    /\ frames["A"] # <<>>
    /\ frames["B"] # <<>>
    /\ on["A"] # on["B"]

\* C4: with no scope active get_request_id() returns a newly generated,
\* non-nil identifier that no earlier call returned and that is no bound
\* identifier, and leaves the task-local cell unset; with a scope active it
\* returns the bound identifier and generates nothing.
C4_Fallback ==
    lastGet # None =>
        LET g == lastGet[1]
        IN  /\ g.scope = None =>
                /\ g.generated = 1
                /\ g.id # NilUuid
                /\ g.id \notin RequestIds
                /\ ~g.repeat
                /\ g.after = None
            /\ g.scope # None =>
                /\ g.generated = 0
                /\ g.id = g.scope[1]
                /\ g.after = g.scope

C4_Witness ==
    /\ lastGet # None
    /\ lastGet[1].scope = None
    /\ lastGet[1].by = "body"
    /\ nextV4 = 2

\* C10: scopes nest and unwind like a stack: each live guard holds what the
\* cell held before it, the cell holds the innermost identifier, a call
\* made after an inner scope was left (by return or unwinding) sees the
\* enclosing identifier, a call made after the outermost scope was left
\* sees none and generates one, and set_request_id returns body's result.
C10_StackDiscipline ==
    /\ \A t \in Tasks :
        /\ Running(t) => slot[on[t]] = Ambient(frames[t])
        /\ \A i \in 1..Len(frames[t]) :
            frames[t][i].prev = Ambient(SubSeq(frames[t], 1, i - 1))
        /\ lastExit[t].how = "return" => lastExit[t].ret = lastExit[t].body
    /\ \A th \in Threads : (\A t \in Tasks : on[t] # th) => slot[th] = None
    /\ lastGet # None =>
        LET g == lastGet[1]
        IN  g.exit.how # "none" =>
                /\ g.depth < g.exit.from
                /\ g.depth = 0 => (g.generated = 1 /\ g.id \notin RequestIds)
                /\ g.depth > 0 => (g.generated = 0 /\ g.id = IdAt(g.task, g.depth))

C10_Witness ==
    /\ lastGet # None
    /\ lastGet[1].exit.how = "return"
    /\ lastGet[1].exit.from = 2
    /\ lastGet[1].depth = 1
    /\ lastGet[1].id = IdAt(lastGet[1].task, 1)

-----------------------------------------------------------------------------
(* Properties of the conversion (SpecConvert)                              *)

StatusTable ==
    [NotFound |-> <<404, "Not Found", "https://errors.eywa.dev/not-found">>,
     Validation |-> <<400, "Validation Error", "https://errors.eywa.dev/validation-error">>,
     ValidationField |->
        <<400, "Validation Error", "https://errors.eywa.dev/validation-error">>,
     BadRequest |-> <<400, "Bad Request", "https://errors.eywa.dev/bad-request">>,
     Unauthorized |-> <<401, "Unauthorized", "https://errors.eywa.dev/unauthorized">>,
     Forbidden |-> <<403, "Forbidden", "https://errors.eywa.dev/forbidden">>,
     Conflict |-> <<409, "Conflict", "https://errors.eywa.dev/conflict">>,
     DatabaseError |-> <<500, "Database Error", "https://errors.eywa.dev/database-error">>,
     ConfigError |-> <<500, "Configuration Error", "https://errors.eywa.dev/config-error">>,
     ExternalServiceError |->
        <<502, "External Service Error", "https://errors.eywa.dev/external-service-error">>,
     InternalServerError |->
        <<500, "Internal Server Error", "https://errors.eywa.dev/internal-error">>,
     ServiceUnavailable |->
        <<503, "Service Unavailable", "https://errors.eywa.dev/service-unavailable">>]

\* C1: the status, title and type of every document produced are the row
\* of the fixed table for the variant's tag, whatever data the variant
\* carries; the table covers the 12 variants; a response carries the same
\* status as its document.
C1_FixedMapping ==
    /\ {e.tag : e \in AppErrors} = DOMAIN StatusTable
    /\ Cardinality(DOMAIN StatusTable) = 12
    /\ \A i \in 1..Len(cPds) :
        LET c == cPds[i]
            row == StatusTable[c.err.tag]
        IN  /\ c.pd.status = row[1]
            /\ c.pd.title = row[2]
            /\ c.pd.error_type = row[3]
            /\ \A e \in AppErrors :
                e.tag = c.err.tag =>
                    /\ status_and_title(e) = <<c.pd.status, c.pd.title>>
                    /\ error_type_uri(e) = c.pd.error_type
    /\ \A i \in 1..Len(cResp) : cResp[i].status = cResp[i].body.status

C1_Witness ==
    \E i \in 1..Len(cPds) :
        /\ cPds[i].err.tag = "ExternalServiceError"
        /\ cPds[i].pd.status = 502
        /\ cPds[i].pd.title = "External Service Error"

\* C7: errors of the document is the aggregate's field errors, same length
\* and order, for Validation; the single field error (code
\* "validation_error", no received value) for ValidationField; empty for
\* every other variant; instance is unset.
C7_ErrorsField ==
    \A i \in 1..Len(cPds) :
        LET c == cPds[i]
        IN  /\ c.pd.instance = None
            /\ c.err.tag = "Validation" =>
                /\ Len(c.pd.errors) = Len(c.err.v0.errors)
                /\ \A k \in 1..Len(c.pd.errors) : c.pd.errors[k] = c.err.v0.errors[k]
            /\ c.err.tag = "ValidationField" =>
                c.pd.errors = <<[field |-> c.err.field, code |-> "validation_error",
                                 message |-> c.err.message, received |-> None]>>
            /\ c.err.tag \notin {"Validation", "ValidationField"} => c.pd.errors = <<>>
            /\ c.err.tag = "NotFound" => c.pd.status = 404

C7_Witness ==
    \E i \in 1..Len(cPds) :
        /\ cPds[i].err.tag = "Validation"
        /\ Len(cPds[i].pd.errors) = 2
        /\ cPds[i].pd.errors[1].field = "email"
        /\ cPds[i].pd.errors[2].field = "name"
        /\ cPds[i].pd.status = 400
        /\ cPds[i].pd.title = "Validation Error"

SameButIds(p, q) ==
    /\ p.error_type = q.error_type
    /\ p.title = q.title
    /\ p.status = q.status
    /\ p.detail = q.detail
    /\ p.instance = q.instance
    /\ p.errors = q.errors

\* C8 as stated: two conversions of the same failure agree in every field
\* but timestamp, and in request_id too unless they ran in different
\* scopes; a conversion leaves the failure unchanged.
C8_Original ==
    \A i, j \in 1..Len(cPds) :
        (i < j /\ cPds[i].err = cPds[j].err) =>
            /\ SameButIds(cPds[i].pd, cPds[j].pd)
            /\ cPds[i].scope = cPds[j].scope =>
                cPds[i].pd.request_id = cPds[j].pd.request_id
            /\ cPds[i].direct => cPds[i].left = Some(cPds[i].err)

\* C8 amended: two conversions of the same failure agree in every field
\* but timestamp and request_id; they carry the same request_id when both
\* ran inside scopes binding the same identifier, and different ones when
\* both ran with no scope active; a conversion leaves the failure
\* unchanged.
C8_Amended ==
    \A i, j \in 1..Len(cPds) :
        (i < j /\ cPds[i].err = cPds[j].err) =>
            /\ SameButIds(cPds[i].pd, cPds[j].pd)
            /\ (cPds[i].scope = cPds[j].scope /\ cPds[i].scope # None) =>
                cPds[i].pd.request_id = cPds[j].pd.request_id
            /\ (cPds[i].scope = None /\ cPds[j].scope = None) =>
                cPds[i].pd.request_id # cPds[j].pd.request_id
            /\ cPds[i].direct => cPds[i].left = Some(cPds[i].err)
            /\ cPds[j].direct => cPds[j].left = Some(cPds[j].err)

C8_Witness ==
    \E i, j \in 1..Len(cPds) :
        /\ i < j
        /\ cPds[i].err = cPds[j].err
        /\ cPds[i].direct
        /\ cPds[j].direct
        /\ cPds[i].scope # None
        /\ cPds[i].scope = cPds[j].scope
        /\ cPds[i].pd.timestamp # cPds[j].pd.timestamp
        /\ cPds[i].pd.request_id = cPds[j].pd.request_id

Responses == {i \in 1..Len(cPds) : ~cPds[i].direct}

\* C9 as stated: every conversion into a document emits one diagnostic
\* record, so there are as many records as conversions.
C9_Original ==
    Len(cDiag) = Len(cPds)

\* C9 amended: every into_response emits exactly one diagnostic record,
\* carrying the status of the response and the type, detail and request_id
\* of its document; to_problem_details called on its own emits none, so
\* there are as many records as responses.
C9_Amended ==
    /\ Len(cDiag) = Len(cResp)
    /\ Len(cDiag) = Cardinality(Responses)
    /\ \A i \in 1..Len(cDiag) :
        i <= Len(cResp) =>
            /\ cDiag[i].status = cResp[i].status
            /\ cDiag[i].error_type = cResp[i].body.error_type
            /\ cDiag[i].detail = cResp[i].body.detail
            /\ cDiag[i].request_id = cResp[i].body.request_id
            /\ cResp[i].content_type = "application/problem+json"

C9_Witness ==
    /\ Len(cPds) = 2
    /\ Len(cResp) = 1
    /\ Len(cDiag) = 1
    /\ cPds[1].direct
    /\ cPds[1].scope = None
    /\ cDiag[1].request_id = cPds[2].pd.request_id
    /\ cDiag[1].request_id # cPds[1].pd.request_id

-----------------------------------------------------------------------------
(* Properties of the aggregate and its builder (SpecBuilder)               *)

Expected(c) ==
    [field |-> c.field, code |-> c.code, message |-> c.message, received |-> c.received]

Matches(errors) ==
    /\ Len(errors) = Len(calls)
    /\ \A i \in 1..Len(errors) : i <= Len(calls) => errors[i] = Expected(calls[i])

\* C5: build() returns Ok(()) iff no field/field_with_value call was made,
\* otherwise Err(Validation) holding one FieldError per call in call order;
\* has_errors() tells whether a call was made and changes nothing.
C5_Builder ==
    /\ obj.kind = "builder" => Matches(obj.errors.errors)
    /\ out # None =>
        LET o == out[1]
        IN  /\ o.op = "build" =>
                /\ o.val.ok <=> (calls = <<>>)
                /\ ~o.val.ok =>
                    /\ o.val.err.tag = "Validation"
                    /\ Matches(o.val.err.v0.errors)
            /\ o.op = "has_errors" =>
                /\ o.val <=> (Len(calls) > 0)
                /\ obj.kind = "builder"

C5_Witness ==
    /\ out # None
    /\ out[1].op = "build"
    /\ ~out[1].val.ok
    /\ Len(calls) = 2
    /\ calls[1].fn = "field_with_value"
    /\ calls[2].fn = "field"
    /\ calls[1].field # calls[2].field

\* C6: no operation yields an AppError::Validation carrying an empty
\* aggregate; a non-empty aggregate converts into one AppError::Validation
\* carrying the whole aggregate in the same order.
C6_EmptyNeverFailure ==
    out # None =>
        LET o == out[1]
        IN  o.op \in {"build", "into_result", "from", "validation_error_with_code",
                      "validation_error_with_value"} =>
                /\ ~o.val.ok =>
                    /\ o.val.err.tag = "Validation"
                    /\ Len(o.val.err.v0.errors) > 0
                    /\ Matches(o.val.err.v0.errors)
                /\ o.val.ok => calls = <<>>

====
